---------------------------- MODULE Spec2Model ----------------------------
(***************************************************************************)
(* Model of geozero-shp/src/reader.rs: the Reader, the Geometry Iterator   *)
(* (ShapeIterator) and the Feature Iterator (ShapeRecordIterator).         *)
(*                                                                         *)
(* The collaborators that reader.rs calls but does not define (read_shape, *)
(* dbase::Reader, ShapeRecord::process_properties, the processor) are      *)
(* modelled by their observable outcome, chosen nondeterministically for   *)
(* every call:                                                             *)
(*   - read_shape fails, or returns a record header whose record_size is   *)
(*     a content length in 16-bit words (a natural number);                *)
(*   - dbase::Reader::next yields None once the table's records are used   *)
(*     up, and before that either the next record or an error;             *)
(*   - process_properties succeeds or fails;                               *)
(*   - the processor is the log of the callbacks it received.              *)
(***************************************************************************)
EXTENDS Integers, Sequences, FiniteSets, TLC

(* ------------------------------ bounds --------------------------------- *)
\* header.file_length (in 16-bit words) ranges over MinFileLength..MaxFileLength
MaxFileLength == 59
\* record_size (in 16-bit words) returned by read_shape ranges over 0..MaxRecordSize
MaxRecordSize == 1
\* number of records of the attribute table ranges over 0..MaxDbfRecords
MaxDbfRecords == 2
\* number of calls of next() on an iterator
MaxCalls == 4

(* -------------------------- program constants -------------------------- *)
\* header::HEADER_SIZE, the size in bytes of the .shp file header
HEADER_SIZE == 100
\* RecordHeader::SIZE, the size in bytes of a record header
RecordHeaderSIZE == 8

(* ------------------------------- state --------------------------------- *)
VARIABLES
    stage,          \* "reader": a Reader exists; "geom": it was turned into a
                    \* ShapeIterator; "feat": into a ShapeRecordIterator;
                    \* "consumed": it was consumed without making an iterator
    header_file_length, \* Reader.header.file_length (16-bit words)
    has_dbf,        \* Reader.dbf_reader is Some
    dbf_len,        \* dbase::Reader: number of records of the table
    dbf_pos,        \* dbase::Reader: number of records delivered so far
    current_pos,    \* ShapeIterator.current_pos
    file_length,    \* ShapeIterator.file_length
    featno,         \* ShapeRecordIterator.featno
    processor,      \* the processor: sequence of callbacks received
    decoded,        \* source: record sizes of the shapes read_shape decoded
    reads,          \* source: number of invocations of read_shape
    shp_item,       \* what the last ShapeIterator::next returned
    shp_yielded,    \* number of Some(Ok(())) ShapeIterator::next returned
    rec_item,       \* what the last ShapeRecordIterator::next returned
    rec_record,     \* ordinal of the attribute record in the last Some(Ok(..))
    rec_yielded,    \* number of Some(Ok(..)) ShapeRecordIterator::next returned
    rec_errors,     \* number of Some(Err(..)) ShapeRecordIterator::next returned
    rec_step,       \* what the collaborators returned during the last
                    \* ShapeRecordIterator::next: dbf_reader.next,
                    \* process_properties, shape_iter.next, and the lifecycle
                    \* callbacks that returned an error
    api_op,         \* the last Reader operation called
    api_result,     \* result of the last Reader operation
    ncalls          \* number of next() calls made by the caller

vars == <<stage, header_file_length, has_dbf, dbf_len, dbf_pos, current_pos,
          file_length, featno, processor, decoded, reads, shp_item,
          shp_yielded, rec_item, rec_record, rec_yielded, rec_errors, rec_step, api_op,
          api_result, ncalls>>

\* Header: the declared length, doubled, is at least the header size
MinFileLength == HEADER_SIZE \div 2

FileLengths == MinFileLength..MaxFileLength
RecordSizes == 0..MaxRecordSize

\* outcomes of one invocation of read_shape
ReadShapeOutcomes ==
    {[ok |-> FALSE, record_size |-> 0]}
        \cup {[ok |-> TRUE, record_size |-> n] : n \in RecordSizes}

\* outcomes of one dbase::Reader::next that has a record left
DbfOutcomes == {"Ok", "Err"}

\* outcomes of ShapeRecord::process_properties
PropsOutcomes == {"Ok", "Err"}

Cb(name, arg) == <<name, arg>>

(* ----------------------------- collaborators --------------------------- *)
\* read_shape(&mut processor, &mut source): on success the geometry callbacks
\* of the shape reach the processor and the record header is returned
read_shape(proc, dec, rd) ==
    IF rd.ok
    THEN [ok |-> TRUE, record_size |-> rd.record_size,
          processor |-> Append(proc, Cb("shape", Len(dec))),
          decoded |-> Append(dec, rd.record_size)]
    ELSE [ok |-> FALSE, record_size |-> 0, processor |-> proc, decoded |-> dec]

\* dbase::Reader::next
dbf_reader_next(pos, len, out) ==
    IF pos >= len THEN [item |-> "None", record |-> 0, dbf_pos |-> pos]
    ELSE IF out = "Err" THEN [item |-> "Err", record |-> 0, dbf_pos |-> pos]
    ELSE [item |-> "Ok", record |-> pos, dbf_pos |-> pos + 1]

\* ShapeRecord::process_properties: the property callbacks of the record
process_properties(proc, record, out) ==
    IF out = "Ok"
    THEN [ok |-> TRUE, processor |-> Append(proc, Cb("property", record))]
    ELSE [ok |-> FALSE, processor |-> proc]

(* --------------------------- ShapeIterator ----------------------------- *)
\* mutant of Advance: the record header is not counted
Advance_NoHeader(pos, record_size) == pos + record_size * 2

\* the byte position after a record of record_size words was decoded
Advance(pos, record_size) == (pos + RecordHeaderSIZE) + record_size * 2

\* mutant of Exhausted: the end test is strict
Exhausted_Strict(pos, len) == pos > len

\* the end test of ShapeIterator::next
Exhausted(pos, len) == pos >= len

\* mutant of ShapeIterator_next: an exhausted iterator rewinds to the first
\* record
ShapeIterator_next_Rewind(it, rd) ==
    IF Exhausted(it.current_pos, it.file_length)
    THEN [it |-> [it EXCEPT !.current_pos = HEADER_SIZE], item |-> "None"]
    ELSE LET r == read_shape(it.processor, it.decoded, rd)
             it1 == [it EXCEPT !.processor = r.processor,
                               !.decoded = r.decoded,
                               !.reads = @ + 1]
         IN IF ~r.ok
            THEN [it |-> it1, item |-> "Err"]
            ELSE [it |-> [it1 EXCEPT !.current_pos =
                                        Advance(@, r.record_size)],
                  item |-> "Ok"]

\* mutant of ShapeIterator_next: a failed decode still moves the cursor over
\* the record header
ShapeIterator_next_AdvanceOnErr(it, rd) ==
    IF Exhausted(it.current_pos, it.file_length)
    THEN [it |-> it, item |-> "None"]
    ELSE LET r == read_shape(it.processor, it.decoded, rd)
             it1 == [it EXCEPT !.processor = r.processor,
                               !.decoded = r.decoded,
                               !.reads = @ + 1]
         IN IF ~r.ok
            THEN [it |-> [it1 EXCEPT !.current_pos = @ + RecordHeaderSIZE],
                  item |-> "Err"]
            ELSE [it |-> [it1 EXCEPT !.current_pos =
                                        Advance(@, r.record_size)],
                  item |-> "Ok"]

\* ShapeIterator::next on the iterator it = [processor, decoded, reads,
\* current_pos, file_length]; rd is the outcome read_shape has if invoked
ShapeIterator_next(it, rd) ==
    IF Exhausted(it.current_pos, it.file_length)
    THEN [it |-> it, item |-> "None"]
    ELSE LET r == read_shape(it.processor, it.decoded, rd)
             it1 == [it EXCEPT !.processor = r.processor,
                               !.decoded = r.decoded,
                               !.reads = @ + 1]
         IN IF ~r.ok
            THEN [it |-> it1, item |-> "Err"]
            ELSE [it |-> [it1 EXCEPT !.current_pos =
                                        Advance(@, r.record_size)],
                  item |-> "Ok"]

\* the ShapeIterator held in the variables
ShapeIter ==
    [processor |-> processor, decoded |-> decoded, reads |-> reads,
     current_pos |-> current_pos, file_length |-> file_length]

(* ------------------------ ShapeRecordIterator -------------------------- *)
\* the lifecycle callbacks of the FeatureProcessor
LifecycleNames ==
    {"dataset_begin", "dataset_end", "feature_begin", "feature_end",
     "properties_begin", "properties_end", "geometry_begin", "geometry_end"}

\* the lifecycle callbacks that return an error during one step: none of
\* them, the begin callbacks, or all of them
LifecycleFailures ==
    {{},
     {"dataset_begin", "feature_begin", "properties_begin", "geometry_begin"},
     LifecycleNames}

\* one lifecycle callback: the processor receives it and answers Ok or Err
lifecycle(proc, name, arg, lc) ==
    [processor |-> Append(proc, Cb(name, arg)), ok |-> name \notin lc]

\* mutant of ShapeRecordIterator_next: featno is incremented before
\* feature_end is called
ShapeRecordIterator_next_EarlyIncrement(s, dbf, props, rd, lc) ==
    LET p0 == IF s.featno = 0
              THEN lifecycle(s.shape_iter.processor,
                             "dataset_begin", 0, lc).processor
              ELSE s.shape_iter.processor
        d == dbf_reader_next(s.dbf_pos, s.dbf_len, dbf)
        s0 == [s EXCEPT !.shape_iter.processor = p0, !.dbf_pos = d.dbf_pos]
    IN  IF d.item = "None"
        THEN [s |-> [s0 EXCEPT !.shape_iter.processor =
                          lifecycle(@, "dataset_end", 0, lc).processor],
              item |-> "None", record |-> 0, dbf_item |-> "None",
              props_item |-> "NotCalled", shp_item |-> "NotCalled"]
        ELSE IF d.item = "Err"
        THEN [s |-> s0, item |-> "DbaseError", record |-> 0,
              dbf_item |-> "Err", props_item |-> "NotCalled",
              shp_item |-> "NotCalled"]
        ELSE
        LET p1 == lifecycle(
                    lifecycle(p0, "feature_begin", s.featno, lc).processor,
                    "properties_begin", 0, lc).processor
            pp == process_properties(p1, d.record, props)
        IN  IF ~pp.ok
            THEN [s |-> [s0 EXCEPT !.shape_iter.processor = pp.processor],
                  item |-> "GeozeroError", record |-> 0, dbf_item |-> "Ok",
                  props_item |-> "Err", shp_item |-> "NotCalled"]
            ELSE
            LET p2 == lifecycle(
                        lifecycle(pp.processor,
                                  "properties_end", 0, lc).processor,
                        "geometry_begin", 0, lc).processor
                g == ShapeIterator_next(
                        [s0.shape_iter EXCEPT !.processor = p2], rd)
                s1 == [s0 EXCEPT !.shape_iter = g.it]
            IN  IF g.item = "None"
                THEN [s |-> s1, item |-> "None", record |-> 0,
                      dbf_item |-> "Ok", props_item |-> "Ok",
                      shp_item |-> "None"]
                ELSE IF g.item = "Err"
                THEN [s |-> s1, item |-> "ShpError", record |-> 0,
                      dbf_item |-> "Ok", props_item |-> "Ok",
                      shp_item |-> "Err"]
                ELSE [s |-> [s1 EXCEPT
                               !.shape_iter.processor =
                                   lifecycle(
                                     lifecycle(@, "geometry_end", 0,
                                               lc).processor,
                                     "feature_end", s.featno + 1,
                                     lc).processor,
                               !.featno = @ + 1],
                      item |-> "Ok", record |-> d.record,
                      dbf_item |-> "Ok", props_item |-> "Ok",
                      shp_item |-> "Ok"]

\* mutant of ShapeRecordIterator_next: an error of feature_begin is
\* propagated with ? instead of dropped with .ok()
ShapeRecordIterator_next_Propagate(s, dbf, props, rd, lc) ==
    LET p0 == IF s.featno = 0
              THEN lifecycle(s.shape_iter.processor,
                             "dataset_begin", 0, lc).processor
              ELSE s.shape_iter.processor
        d == dbf_reader_next(s.dbf_pos, s.dbf_len, dbf)
        s0 == [s EXCEPT !.shape_iter.processor = p0, !.dbf_pos = d.dbf_pos]
    IN  IF d.item = "None"
        THEN [s |-> [s0 EXCEPT !.shape_iter.processor =
                          lifecycle(@, "dataset_end", 0, lc).processor],
              item |-> "None", record |-> 0, dbf_item |-> "None",
              props_item |-> "NotCalled", shp_item |-> "NotCalled"]
        ELSE IF d.item = "Err"
        THEN [s |-> s0, item |-> "DbaseError", record |-> 0,
              dbf_item |-> "Err", props_item |-> "NotCalled",
              shp_item |-> "NotCalled"]
        ELSE IF ~lifecycle(p0, "feature_begin", s.featno, lc).ok
        THEN [s |-> [s0 EXCEPT !.shape_iter.processor =
                          lifecycle(p0, "feature_begin", s.featno,
                                    lc).processor],
              item |-> "GeozeroError", record |-> 0, dbf_item |-> "Ok",
              props_item |-> "NotCalled", shp_item |-> "NotCalled"]
        ELSE
        LET p1 == lifecycle(
                    lifecycle(p0, "feature_begin", s.featno, lc).processor,
                    "properties_begin", 0, lc).processor
            pp == process_properties(p1, d.record, props)
        IN  IF ~pp.ok
            THEN [s |-> [s0 EXCEPT !.shape_iter.processor = pp.processor],
                  item |-> "GeozeroError", record |-> 0, dbf_item |-> "Ok",
                  props_item |-> "Err", shp_item |-> "NotCalled"]
            ELSE
            LET p2 == lifecycle(
                        lifecycle(pp.processor,
                                  "properties_end", 0, lc).processor,
                        "geometry_begin", 0, lc).processor
                g == ShapeIterator_next(
                        [s0.shape_iter EXCEPT !.processor = p2], rd)
                s1 == [s0 EXCEPT !.shape_iter = g.it]
            IN  IF g.item = "None"
                THEN [s |-> s1, item |-> "None", record |-> 0,
                      dbf_item |-> "Ok", props_item |-> "Ok",
                      shp_item |-> "None"]
                ELSE IF g.item = "Err"
                THEN [s |-> s1, item |-> "ShpError", record |-> 0,
                      dbf_item |-> "Ok", props_item |-> "Ok",
                      shp_item |-> "Err"]
                ELSE [s |-> [s1 EXCEPT
                               !.shape_iter.processor =
                                   lifecycle(
                                     lifecycle(@, "geometry_end", 0,
                                               lc).processor,
                                     "feature_end", s.featno,
                                     lc).processor,
                               !.featno = @ + 1],
                      item |-> "Ok", record |-> d.record,
                      dbf_item |-> "Ok", props_item |-> "Ok",
                      shp_item |-> "Ok"]

\* ShapeRecordIterator::next on [shape_iter, dbf_pos, dbf_len, featno];
\* dbf, props and rd are the outcomes of dbf_reader.next, process_properties
\* and read_shape if invoked, lc the lifecycle callbacks that return an error.
\* The result of a lifecycle callback is dropped by .ok(): only the
\* processor it leaves is used.
ShapeRecordIterator_next(s, dbf, props, rd, lc) ==
    LET p0 == IF s.featno = 0
              THEN lifecycle(s.shape_iter.processor,
                             "dataset_begin", 0, lc).processor
              ELSE s.shape_iter.processor
        d == dbf_reader_next(s.dbf_pos, s.dbf_len, dbf)
        s0 == [s EXCEPT !.shape_iter.processor = p0, !.dbf_pos = d.dbf_pos]
    IN  IF d.item = "None"
        THEN [s |-> [s0 EXCEPT !.shape_iter.processor =
                          lifecycle(@, "dataset_end", 0, lc).processor],
              item |-> "None", record |-> 0, dbf_item |-> "None",
              props_item |-> "NotCalled", shp_item |-> "NotCalled"]
        ELSE IF d.item = "Err"
        THEN [s |-> s0, item |-> "DbaseError", record |-> 0,
              dbf_item |-> "Err", props_item |-> "NotCalled",
              shp_item |-> "NotCalled"]
        ELSE
        LET p1 == lifecycle(
                    lifecycle(p0, "feature_begin", s.featno, lc).processor,
                    "properties_begin", 0, lc).processor
            pp == process_properties(p1, d.record, props)
        IN  IF ~pp.ok
            THEN [s |-> [s0 EXCEPT !.shape_iter.processor = pp.processor],
                  item |-> "GeozeroError", record |-> 0, dbf_item |-> "Ok",
                  props_item |-> "Err", shp_item |-> "NotCalled"]
            ELSE
            LET p2 == lifecycle(
                        lifecycle(pp.processor,
                                  "properties_end", 0, lc).processor,
                        "geometry_begin", 0, lc).processor
                g == ShapeIterator_next(
                        [s0.shape_iter EXCEPT !.processor = p2], rd)
                s1 == [s0 EXCEPT !.shape_iter = g.it]
            IN  IF g.item = "None"
                THEN [s |-> s1, item |-> "None", record |-> 0,
                      dbf_item |-> "Ok", props_item |-> "Ok",
                      shp_item |-> "None"]
                ELSE IF g.item = "Err"
                THEN [s |-> s1, item |-> "ShpError", record |-> 0,
                      dbf_item |-> "Ok", props_item |-> "Ok",
                      shp_item |-> "Err"]
                ELSE [s |-> [s1 EXCEPT
                               !.shape_iter.processor =
                                   lifecycle(
                                     lifecycle(@, "geometry_end", 0,
                                               lc).processor,
                                     "feature_end", s.featno,
                                     lc).processor,
                               !.featno = @ + 1],
                      item |-> "Ok", record |-> d.record,
                      dbf_item |-> "Ok", props_item |-> "Ok",
                      shp_item |-> "Ok"]

\* the ShapeRecordIterator held in the variables
ShapeRecordIter ==
    [shape_iter |-> ShapeIter, dbf_pos |-> dbf_pos, dbf_len |-> dbf_len,
     featno |-> featno]

(* ------------------------------- Reader -------------------------------- *)
\* mutant of iter_geometries: the length in words is not doubled
iter_geometries_NotDoubled(hdr_file_length) ==
    [current_pos |-> HEADER_SIZE, file_length |-> hdr_file_length]

\* Reader::iter_geometries: the fields of the ShapeIterator it builds
iter_geometries(hdr_file_length) ==
    [current_pos |-> HEADER_SIZE, file_length |-> hdr_file_length * 2]

\* mutant of iter_features: the iterator is built whether or not a dbf reader
\* is attached
iter_features_NoCheck(dbf_attached, hdr_file_length) ==
    [result |-> "Ok", stage |-> "feat",
     shape_iter |-> iter_geometries(hdr_file_length), featno |-> 0]

\* Reader::iter_features: Err(MissingDbf) unless a dbf reader is attached
iter_features(dbf_attached, hdr_file_length) ==
    IF dbf_attached
    THEN [result |-> "Ok", stage |-> "feat",
          shape_iter |-> iter_geometries(hdr_file_length), featno |-> 0]
    ELSE [result |-> "MissingDbf", stage |-> "consumed",
          shape_iter |-> [current_pos |-> 0, file_length |-> 0], featno |-> 0]

\* Reader::read_records: Err(MissingDbf) unless a dbf reader is attached,
\* else what dbase::Reader::read returns
read_records(dbf_attached, out) ==
    IF ~dbf_attached THEN "MissingDbf"
    ELSE IF out = "Ok" THEN "Ok" ELSE "DbaseError"

(* ------------------------------- actions ------------------------------- *)
\* rec_step before any call of ShapeRecordIterator::next
NoStep ==
    [dbf |-> "NotCalled", props |-> "NotCalled", shape |-> "NotCalled",
     lc_errs |-> {}]

\* the names of the callbacks the processor received after the first n
CalledSince(log, n) == {log[i][1] : i \in (n + 1)..Len(log)}

\* the state after Reader::new: the header was read, nothing else
Init ==
    /\ stage = "reader"
    /\ header_file_length \in FileLengths
    /\ has_dbf = FALSE
    /\ dbf_len = 0
    /\ dbf_pos = 0
    /\ current_pos = 0
    /\ file_length = 0
    /\ featno = 0
    /\ processor = << >>
    /\ decoded = << >>
    /\ reads = 0
    /\ shp_item = "NotCalled"
    /\ shp_yielded = 0
    /\ rec_item = "NotCalled"
    /\ rec_record = 0
    /\ rec_yielded = 0
    /\ rec_errors = 0
    /\ rec_step = NoStep
    /\ api_op = "new"
    /\ api_result = "Ok"
    /\ ncalls = 0

\* Reader::add_dbf_source: dbase::Reader::new fails, or the reader of a table
\* of n records is attached
AddDbfSource ==
    /\ stage = "reader"
    /\ \E ok \in BOOLEAN, n \in 0..MaxDbfRecords :
          IF ok
          THEN /\ has_dbf' = TRUE
               /\ dbf_len' = n
               /\ dbf_pos' = 0
               /\ api_result' = "Ok"
          ELSE /\ api_result' = "DbaseError"
               /\ UNCHANGED <<has_dbf, dbf_len, dbf_pos>>
    /\ api_op' = "add_dbf_source"
    /\ UNCHANGED <<stage, header_file_length, current_pos, file_length,
                   featno, processor, decoded, reads, shp_item, shp_yielded,
                   rec_item, rec_record, rec_yielded, rec_errors, rec_step, ncalls>>

\* Reader::read_records
ReadRecords ==
    /\ stage = "reader"
    /\ \E out \in DbfOutcomes :
          api_result' = read_records(has_dbf, out)
    /\ stage' = "consumed"
    /\ dbf_pos' = IF has_dbf /\ api_result' = "Ok" THEN dbf_len ELSE dbf_pos
    /\ api_op' = "read_records"
    /\ has_dbf' = FALSE
    /\ UNCHANGED <<header_file_length, dbf_len, current_pos,
                   file_length, featno, processor, decoded, reads, shp_item,
                   shp_yielded, rec_item, rec_record, rec_yielded, rec_errors,
                   rec_step, ncalls>>

\* Reader::iter_geometries
IterGeometries ==
    /\ stage = "reader"
    /\ stage' = "geom"
    /\ current_pos' = iter_geometries(header_file_length).current_pos
    /\ file_length' = iter_geometries(header_file_length).file_length
    /\ api_op' = "iter_geometries"
    /\ api_result' = "Ok"
    /\ UNCHANGED <<header_file_length, has_dbf, dbf_len, dbf_pos, featno,
                   processor, decoded, reads, shp_item, shp_yielded, rec_item,
                   rec_record, rec_yielded, rec_errors, rec_step, ncalls>>

\* Reader::iter_features
IterFeatures ==
    /\ stage = "reader"
    /\ LET r == iter_features(has_dbf, header_file_length)
       IN  /\ stage' = r.stage
           /\ api_result' = r.result
           /\ current_pos' = r.shape_iter.current_pos
           /\ file_length' = r.shape_iter.file_length
           /\ featno' = r.featno
    /\ api_op' = "iter_features"
    /\ has_dbf' = FALSE
    /\ UNCHANGED <<header_file_length, dbf_len, dbf_pos, processor, decoded,
                   reads, shp_item, shp_yielded, rec_item, rec_record,
                   rec_yielded, rec_errors, rec_step, ncalls>>

\* one call of ShapeIterator::next by the caller of iter_geometries
ShapeIteratorNext ==
    /\ stage = "geom"
    /\ ncalls < MaxCalls
    /\ \E rd \in ReadShapeOutcomes :
          LET r == ShapeIterator_next(ShapeIter, rd)
          IN  /\ processor' = r.it.processor
              /\ decoded' = r.it.decoded
              /\ reads' = r.it.reads
              /\ current_pos' = r.it.current_pos
              /\ file_length' = r.it.file_length
              /\ shp_item' = r.item
              /\ shp_yielded' = IF r.item = "Ok" THEN shp_yielded + 1
                                ELSE shp_yielded
    /\ ncalls' = ncalls + 1
    /\ UNCHANGED <<stage, header_file_length, has_dbf, dbf_len, dbf_pos,
                   featno, rec_item, rec_record, rec_yielded, rec_errors,
                   rec_step, api_op, api_result>>

\* one call of ShapeRecordIterator::next by the caller of iter_features
ShapeRecordIteratorNext ==
    /\ stage = "feat"
    /\ ncalls < MaxCalls
    /\ \E dbf \in DbfOutcomes, props \in PropsOutcomes,
          rd \in ReadShapeOutcomes, lc \in LifecycleFailures :
          LET r == ShapeRecordIterator_next(ShapeRecordIter, dbf, props, rd,
                                            lc)
          IN  /\ processor' = r.s.shape_iter.processor
              /\ rec_step' =
                    [dbf |-> r.dbf_item, props |-> r.props_item,
                     shape |-> r.shp_item,
                     lc_errs |-> lc \cap CalledSince(
                                    r.s.shape_iter.processor,
                                    Len(processor))]
              /\ decoded' = r.s.shape_iter.decoded
              /\ reads' = r.s.shape_iter.reads
              /\ current_pos' = r.s.shape_iter.current_pos
              /\ file_length' = r.s.shape_iter.file_length
              /\ dbf_pos' = r.s.dbf_pos
              /\ featno' = r.s.featno
              /\ rec_item' = r.item
              /\ rec_record' = r.record
              /\ rec_yielded' = IF r.item = "Ok" THEN rec_yielded + 1
                                ELSE rec_yielded
              /\ rec_errors' = IF r.item \in {"None", "Ok"} THEN rec_errors
                               ELSE rec_errors + 1
              /\ shp_item' = IF r.shp_item = "NotCalled" THEN shp_item
                             ELSE r.shp_item
              /\ shp_yielded' = IF r.shp_item = "Ok" THEN shp_yielded + 1
                                ELSE shp_yielded
    /\ ncalls' = ncalls + 1
    /\ UNCHANGED <<stage, header_file_length, has_dbf, dbf_len, api_op,
                   api_result>>

Next ==
    \/ AddDbfSource
    \/ ReadRecords
    \/ IterGeometries
    \/ IterFeatures
    \/ ShapeIteratorNext
    \/ ShapeRecordIteratorNext

Spec == Init /\ [][Next]_vars


(* ------------------------- derived quantities -------------------------- *)
\* number of callbacks called name that the processor received
RECURSIVE CountCb(_, _)
CountCb(log, name) ==
    IF log = << >> THEN 0
    ELSE (IF Head(log)[1] = name THEN 1 ELSE 0) + CountCb(Tail(log), name)

\* bytes the cursor must have advanced over the records of sizes
RECURSIVE SumAdvances(_)
SumAdvances(sizes) ==
    IF sizes = << >> THEN 0
    ELSE (RecordHeaderSIZE + 2 * Head(sizes)) + SumAdvances(Tail(sizes))

\* The scope the callback protocol is in after one more callback: "top"
\* (no feature open), then inside a feature k "feature", "properties",
\* "props_done", "geometry", "geom_done"; "bad" once a callback came out of
\* place.
ScopeStep(sc, cb) ==
    LET name == cb[1]
        k == cb[2]
    IN  CASE sc[1] = "bad" -> sc
          [] name \in {"dataset_begin", "dataset_end"} ->
                IF sc[1] = "top" THEN sc ELSE <<"bad", 0>>
          [] name = "feature_begin" ->
                IF sc[1] = "top" THEN <<"feature", k>> ELSE <<"bad", 0>>
          [] name = "properties_begin" ->
                IF sc[1] = "feature" THEN <<"properties", sc[2]>>
                ELSE <<"bad", 0>>
          [] name = "property" ->
                IF sc[1] = "properties" THEN sc ELSE <<"bad", 0>>
          [] name = "properties_end" ->
                IF sc[1] = "properties" THEN <<"props_done", sc[2]>>
                ELSE <<"bad", 0>>
          [] name = "geometry_begin" ->
                IF sc[1] = "props_done" THEN <<"geometry", sc[2]>>
                ELSE <<"bad", 0>>
          [] name = "shape" ->
                IF sc[1] \in {"geometry", "top"} THEN sc ELSE <<"bad", 0>>
          [] name = "geometry_end" ->
                IF sc[1] = "geometry" THEN <<"geom_done", sc[2]>>
                ELSE <<"bad", 0>>
          [] name = "feature_end" ->
                IF sc[1] = "geom_done" /\ sc[2] = k THEN <<"top", 0>>
                ELSE <<"bad", 0>>
          [] OTHER -> <<"bad", 0>>

RECURSIVE ScopeAfter(_, _)
ScopeAfter(sc, log) ==
    IF log = << >> THEN sc
    ELSE ScopeAfter(ScopeStep(sc, Head(log)), Tail(log))

Scope == ScopeAfter(<<"top", 0>>, processor)

RecErrors == {"DbaseError", "GeozeroError", "ShpError"}

(* ------------------------------- claims -------------------------------- *)

\* C1: whenever ShapeRecordIterator::next yields a record, as many attribute
\* records were consumed as shapes were decoded, and the record returned has
\* the ordinal of the shape decoded in that step.
C1_Lockstep ==
    (stage = "feat" /\ rec_item = "Ok") =>
        /\ dbf_pos = Len(decoded)
        /\ rec_record = Len(decoded) - 1

\* C2: the processor receives exactly one dataset_begin, on the first step,
\* and at most one dataset_end, exactly one once the attribute sequence was
\* found exhausted; no later call emits either a second time.
C2_OneDatasetBeginEnd ==
    stage = "feat" =>
        /\ CountCb(processor, "dataset_begin") = (IF ncalls = 0 THEN 0 ELSE 1)
        /\ CountCb(processor, "dataset_end") <= 1

\* C3: the lifecycle callbacks are strictly nested and matched: no
\* feature_begin or dataset_end arrives while a feature, properties or
\* geometry scope is open, and none is open when iteration ends.
C3_StrictNesting ==
    stage = "feat" =>
        /\ Scope[1] # "bad"
        /\ rec_item = "None" => Scope[1] = "top"

\* C4 (as claimed): when ShapeIterator::next yields no item, current_pos
\* equals the declared byte length exactly.
C4_EndsExactlyAtLength ==
    shp_item = "None" => current_pos = header_file_length * 2

\* C4 (amended): when ShapeIterator::next yields no item, current_pos is at
\* least the declared byte length, and the cursor was below the declared
\* length before the last record decoded (with no record decoded it is still
\* HEADER_SIZE): it overshoots by less than the advance of the last record.
C4_EndsAtOrPastLength ==
    shp_item = "None" =>
        /\ file_length = header_file_length * 2
        /\ current_pos >= file_length
        /\ IF decoded = << >>
           THEN current_pos = HEADER_SIZE
           ELSE current_pos
                  - (RecordHeaderSIZE + 2 * decoded[Len(decoded)])
                    < file_length

\* C4 witness: the iterator ended past the declared length after a record
C4_Witness ==
    /\ stage = "geom"
    /\ shp_item = "None"
    /\ decoded # << >>
    /\ current_pos > file_length

\* C5: the cursor starts at HEADER_SIZE, after k successful steps it is
\* HEADER_SIZE plus the sum of RecordHeader::SIZE + 2 * record_size over the
\* k records decoded, and it never decreases.
C5_CursorIsSumOfAdvances ==
    /\ [](stage \in {"geom", "feat"} =>
            current_pos = HEADER_SIZE + SumAdvances(decoded))
    /\ [][current_pos' >= current_pos]_vars

\* C5 witness: two records of different sizes were decoded
C5_Witness ==
    /\ stage = "geom"
    /\ Len(decoded) >= 2
    /\ decoded[1] # decoded[2]

\* C6: once ShapeIterator::next has yielded no item, every later call yields
\* no item.
C6_FusedGeometry ==
    [][shp_item = "None" => shp_item' = "None"]_vars

\* C6 witness: next was called at least twice in the exhausted state, after
\* a record was decoded
C6_Witness ==
    /\ stage = "geom"
    /\ shp_item = "None"
    /\ reads >= 1
    /\ ncalls - reads >= 2

\* C7: after ShapeIterator::next returned an error, the next call yields no
\* item and does not invoke the shape decoder.
C7_ErrorIsTerminal ==
    [][(stage = "geom" /\ shp_item = "Err" /\ ncalls' # ncalls) =>
           (shp_item' = "None" /\ reads' = reads)]_vars

\* C8: after ShapeRecordIterator::next returned an error, the next call
\* yields no item and consumes no attribute record and no shape.
C8_FirstErrorEnds ==
    [][(stage = "feat" /\ rec_item \in RecErrors /\ ncalls' # ncalls) =>
           (rec_item' = "None" /\ dbf_pos' = dbf_pos /\ reads' = reads)]_vars

\* C9: in an error-free run, when ShapeRecordIterator::next yields no item
\* the attribute sequence is exhausted, dataset_end was emitted and as many
\* features were yielded as the table has records.
C9_AttributesDriveEnd ==
    (stage = "feat" /\ rec_errors = 0 /\ rec_item = "None") =>
        /\ dbf_pos = dbf_len
        /\ CountCb(processor, "dataset_end") >= 1
        /\ rec_yielded = dbf_len

\* C10: iter_features and read_records on a Reader without a dbf reader fail
\* with MissingDbf, consume the Reader without making an iterator, read
\* nothing from the geometry source and call no callback.
C10_MissingDbf ==
    [][(stage = "reader" /\ ~has_dbf /\ stage' # "reader"
          /\ api_op' \in {"iter_features", "read_records"}) =>
           /\ api_result' = "MissingDbf"
           /\ stage' = "consumed"
           /\ reads' = reads
           /\ decoded' = decoded
           /\ processor' = processor
           /\ current_pos' = 0 /\ file_length' = 0
           /\ ncalls' = 0]_vars

\* C10 witness: iter_features failed with MissingDbf
C10_Witness ==
    /\ api_op = "iter_features"
    /\ api_result = "MissingDbf"
    /\ stage = "consumed"

\* the ids of the feature_begin callbacks, in the order received
RECURSIVE FeatureBeginIds(_)
FeatureBeginIds(log) ==
    IF log = << >> THEN << >>
    ELSE IF Head(log)[1] = "feature_begin"
         THEN <<Head(log)[2]>> \o FeatureBeginIds(Tail(log))
         ELSE FeatureBeginIds(Tail(log))

\* C11: the first feature_begin carries id 0, every later feature_begin an
\* id strictly greater than the one before, and featno equals the number of
\* features yielded so far.
C11_OrdinalsIncrease ==
    stage = "feat" =>
        LET ids == FeatureBeginIds(processor)
        IN  /\ ids # << >> => ids[1] = 0
            /\ \A i \in 1..(Len(ids) - 1) : ids[i + 1] > ids[i]
            /\ featno = rec_yielded

\* the shape callbacks of the first n shapes of the file, in file order
ShapesInOrder(n) == [i \in 1..n |-> Cb("shape", i - 1)]

\* no read_shape failed so far
NoDecodeFailure == reads = Len(decoded)

\* the byte position after the records decoded so far
StreamPos == HEADER_SIZE + SumAdvances(decoded)

\* C12: with a decoder that never fails, as long as the records decoded do
\* not add up to the declared length a call of ShapeIterator::next decodes
\* the next record and yields Ok; once N records that add up to the declared
\* length were decoded, N steps were yielded, the decoder was invoked N times
\* in file order, and the next call yields no item without invoking it.
C12_WellFormedStream ==
    /\ [](stage = "geom" /\ NoDecodeFailure =>
            /\ shp_yielded = Len(decoded)
            /\ reads = Len(decoded)
            /\ processor = ShapesInOrder(Len(decoded))
            /\ shp_item = "None" => StreamPos >= header_file_length * 2)
    /\ [][(stage = "geom" /\ NoDecodeFailure /\ ncalls' # ncalls) =>
            IF StreamPos < header_file_length * 2
            THEN reads' = reads + 1
                 /\ (reads' = Len(decoded') =>
                        shp_item' = "Ok" /\ shp_yielded' = shp_yielded + 1)
            ELSE shp_item' = "None" /\ reads' = reads /\ decoded' = decoded
                 /\ shp_yielded' = shp_yielded]_vars

\* C12 witness: two records that add up to the declared length were decoded
\* and the third call yielded no item (with one record and two calls this is
\* the single-point scenario)
C12_Witness ==
    /\ stage = "geom"
    /\ NoDecodeFailure
    /\ Len(decoded) = 2
    /\ StreamPos = header_file_length * 2
    /\ ncalls = 3
    /\ shp_item = "None"

\* the callbacks of one yielding step for feature n, attribute record r and
\* shape k
FeatureCallbacks(n, r, k) ==
    <<Cb("feature_begin", n), Cb("properties_begin", 0), Cb("property", r),
      Cb("properties_end", 0), Cb("geometry_begin", 0), Cb("shape", k),
      Cb("geometry_end", 0), Cb("feature_end", n)>>

\* C13: a step of ShapeRecordIterator::next that yields a record adds to the
\* processor exactly feature_begin(n), properties_begin, the property
\* callbacks of the record, properties_end, geometry_begin, the geometry
\* callbacks of one shape, geometry_end, feature_end(n), with n the value of
\* featno before the step (after dataset_begin when n = 0), and featno is
\* n + 1 afterwards.
C13_CallbackOrder ==
    [][(stage = "feat" /\ ncalls' # ncalls /\ rec_item' = "Ok") =>
          /\ processor' =
                processor
                  \o (IF featno = 0 THEN <<Cb("dataset_begin", 0)>>
                      ELSE << >>)
                  \o FeatureCallbacks(featno, rec_record', Len(decoded))
          /\ featno' = featno + 1]_vars

\* C13 witness: a second record was yielded
C13_Witness ==
    /\ stage = "feat"
    /\ rec_item = "Ok"
    /\ featno = 2
    /\ Len(processor) >= 17

\* number of callbacks a step adds after the optional dataset_begin, given
\* what the collaborators returned during it
StepCallbacks(step) ==
    CASE step.dbf = "None" -> 1
      [] step.dbf = "Err" -> 0
      [] step.props = "Err" -> 2
      [] step.shape \in {"None", "Err"} -> 5
      [] OTHER -> 8

\* C14: a step of ShapeRecordIterator::next returns an error exactly when
\* dbf_reader.next, process_properties or shape_iter.next returned one, the
\* first of them in that order (nothing is called after it); the lifecycle
\* callbacks that returned an error change neither the result nor the
\* callbacks made during the step.
C14_ErrorPropagation ==
    [][(stage = "feat" /\ ncalls' # ncalls) =>
          LET step == rec_step'
          IN  /\ rec_item' \in RecErrors <=>
                    (step.dbf = "Err" \/ step.props = "Err"
                        \/ step.shape = "Err")
              /\ step.dbf = "Err" =>
                    /\ rec_item' = "DbaseError"
                    /\ step.props = "NotCalled" /\ step.shape = "NotCalled"
              /\ step.props = "Err" =>
                    /\ rec_item' = "GeozeroError"
                    /\ step.dbf = "Ok" /\ step.shape = "NotCalled"
              /\ step.shape = "Err" =>
                    /\ rec_item' = "ShpError"
                    /\ step.dbf = "Ok" /\ step.props = "Ok"
              /\ Len(processor') - Len(processor) =
                    (IF featno = 0 THEN 1 ELSE 0) + StepCallbacks(step)]_vars

\* C14 witness: a record was yielded by a step in which feature_begin and
\* feature_end returned an error
C14_Witness ==
    /\ stage = "feat"
    /\ rec_item = "Ok"
    /\ {"feature_begin", "feature_end"} \subseteq rec_step.lc_errs

\* C15: once ShapeRecordIterator::next has yielded no item, the next call
\* yields no item either (never a record, never an error).
C15_FusedFeatures ==
    [][(stage = "feat" /\ rec_item = "None" /\ ncalls' # ncalls) =>
          rec_item' = "None"]_vars

\* a / b rounded up
CeilDiv(a, b) == (a + (b - 1)) \div b

\* the largest number of records a file of the declared length can hold
StepBound ==
    CeilDiv(header_file_length * 2 - HEADER_SIZE, RecordHeaderSIZE)

\* the caller of iter_geometries keeps calling next
LiveSpec == Spec /\ WF_vars(ShapeIteratorNext)

\* C16: every successful step of ShapeIterator::next increases current_pos
\* by at least RecordHeader::SIZE, at most
\* ceil((file_length * 2 - HEADER_SIZE) / RecordHeader::SIZE) steps succeed,
\* and unless the decoder fails the iterator eventually is exhausted.
C16_Terminates ==
    /\ [][(stage = "geom" /\ shp_yielded' # shp_yielded) =>
            current_pos' >= current_pos + RecordHeaderSIZE]_vars
    /\ [](stage = "geom" => shp_yielded <= StepBound)
    /\ (stage = "geom") ~>
          (Exhausted(current_pos, file_length) \/ ~NoDecodeFailure)

\* C16 witness: the iterator is exhausted after as many steps as the bound
\* allows, none of which failed
C16_Witness ==
    /\ stage = "geom"
    /\ NoDecodeFailure
    /\ shp_item = "None"
    /\ shp_yielded = StepBound
    /\ shp_yielded >= 2

\* C17: a call of ShapeIterator::next in the Exhausted state yields no item,
\* does not invoke the shape decoder, reads nothing and leaves current_pos
\* unchanged; a call whose decode fails leaves current_pos unchanged; no
\* step of either iterator modifies file_length.
C17_Frame ==
    [][(stage \in {"geom", "feat"} /\ ncalls' # ncalls) =>
          /\ file_length' = file_length
          /\ (stage = "geom" /\ current_pos >= file_length) =>
                /\ shp_item' = "None"
                /\ reads' = reads
                /\ decoded' = decoded
                /\ processor' = processor
                /\ current_pos' = current_pos
          /\ (reads' # reads /\ decoded' = decoded) =>
                current_pos' = current_pos]_vars

\* C17 witness: a decode failed, a later one succeeded, and next was then
\* called in the Exhausted state
C17_Witness ==
    /\ stage = "geom"
    /\ shp_item = "None"
    /\ decoded # << >>
    /\ reads > Len(decoded)

=============================================================================
